---- MODULE Spec2Model ----
(***************************************************************************)
(* Model of the two variants of the useK8sWatchResource hook: the retrying *)
(* variant (reads the model registry, forces a model fetch up to three     *)
(* times) and the static-model variant (takes an optional initModel).      *)
(*                                                                         *)
(* One consumer (one mounted component) is modelled.  A step is either one *)
(* evaluation of the hook body (Render), one run of the effect's cleanup   *)
(* closure (Cleanup), one run of the effect body (Effect), or a change of  *)
(* something the hook reads: its props, the workspace context, the model   *)
(* registry or the shared redux store.                                     *)
(***************************************************************************)
EXTENDS Integers, Sequences, FiniteSets, TLC

VARIABLES
  variant,            \* "retry" (first hook) or "static" (second hook); fixed per mount
  pc,                 \* "idle" | "cleanup" | "effect" | "unmounted"
  needRender,         \* an update of the component is scheduled
  initResource,       \* prop: Null or a descriptor object
  initModel,          \* prop (static variant): NoModel or a model
  options,            \* prop: options object
  activeWorkspace,    \* workspaceContext.getState().activeWorkspace
  registry,           \* model registry: model key -> model or NoModel
  storedModelsLoaded, \* useModelsLoaded()
  records,            \* redux store: the subscription records, each under its watch id
  inFlight,           \* redux store RESOURCES.inFlight
  batchesInFlight,    \* redux store RESOURCES.batchesInFlight
  retries,            \* React.useState(0)
  resourceRef,        \* ref.current of useDeepCompareMemoize
  watchMemo,          \* useMemo cell of watchData: [deps, value]
  watchFresh,         \* the memoized watchData is a different object than the one the last effect captured
  effectState,        \* what the last run effect closed over: [ran, watchData, workspace]
  resultMemo,         \* useMemo cell of the returned triple: [deps, value]
  open,               \* ids subscribed by this consumer and not yet stopped, in dispatch order
  badStop,            \* a stopK8sWatch was dispatched for an id that was not open
  lastFetch,          \* the most recent evaluation of the hook body called fetchModel
  resetPending,       \* a resource change was rendered and setRetries(0) has not run since
  workspaceSeen,      \* the activeWorkspace the most recent evaluation of the hook body read
  everResource,       \* the caller has passed a resource other than null at least once
  incs,               \* fetchModel + setRetries(retries + 1) calls since an input of the hook last changed
  newObject           \* the watchData not yet committed was recomputed for a newly allocated
                      \* options or initModel object of the same content as the previous one

vars == <<variant, pc, needRender, initResource, initModel, options, activeWorkspace,
          registry, storedModelsLoaded, records, inFlight, batchesInFlight, retries,
          resourceRef, watchMemo, watchFresh, effectState, resultMemo, open,
          badStop, lastFetch, resetPending, workspaceSeen, everResource,
          incs, newObject>>

(*************************** bounds ****************************************)
MaxFetchCount == 4      \* incs saturates here

(*************************** values ****************************************)
NOT_A_VALUE == "__not-a-value__"
RetryBound == 3

Undefined == "undefined"
NoModel == Undefined
RegistryModel(key) == "model:" \o key
StaticModel == "model:static"
NoModelError == "NoModelError"
TransportError == "transport-error"

Null == [null |-> TRUE]
NoRef == [undefined |-> TRUE]
NoRec == [none |-> TRUE]
NoDeps == [nodeps |-> TRUE]

ModelKeys == {"Pod", "apps~v1~Deployment"}
Shapes ==
  { [kind |-> "Pod", groupVersionKind |-> "", isList |-> TRUE],
    [kind |-> "Deployment", groupVersionKind |-> "apps~v1~Deployment", isList |-> FALSE] }
(* A descriptor object: its fields plus its identity relative to the hook.
   fresh = TRUE: an object other than the one held in ref.current of
   useDeepCompareMemoize; fresh = FALSE: that very object. *)
Descriptor(shape, fresh) ==
  [kind |-> shape.kind, groupVersionKind |-> shape.groupVersionKind,
   isList |-> shape.isList, fresh |-> fresh]
Descriptors == { Descriptor(s, f) : s \in Shapes, f \in BOOLEAN }
Held(d) == [d EXCEPT !.fresh = FALSE]
OptionValues == {"undefined", "opts"}
Workspaces == {"ws1", "ws2"}

(* The fallback literal { kind: NOT_A_VALUE } *)
Sentinel == [kind |-> NOT_A_VALUE, groupVersionKind |-> "", isList |-> FALSE, fresh |-> TRUE]

(* JSON.stringify of a descriptor: its fields, not its identity *)
Stringify(v) ==
  IF v = NoRef THEN NoRef
  ELSE [kind |-> v.kind, groupVersionKind |-> v.groupVersionKind, isList |-> v.isList]

(* useDeepCompareMemoize(value, true): keep ref.current unless the strings differ *)
useDeepCompareMemoize(current, value) ==
  IF Stringify(value) # Stringify(current) THEN value ELSE current

(* useK8sModel(resource.groupVersionKind || resource.kind) *)
ModelKey(resource) ==
  IF resource.groupVersionKind # "" THEN resource.groupVersionKind ELSE resource.kind
useK8sModel(reg, key) == IF key \in DOMAIN reg THEN reg[key] ELSE NoModel

(* getWatchData: null for the sentinel or a missing model, else id + subscribe action *)
NullWatch == [nullwatch |-> TRUE]
WatchId(resource, k8sModel, opts) ==
  [resource |-> Stringify(resource), model |-> k8sModel, options |-> opts]
getWatchData(resource, k8sModel, opts) ==
  IF resource.kind = NOT_A_VALUE \/ k8sModel = NoModel THEN NullWatch
  ELSE [id |-> WatchId(resource, k8sModel, opts)]

(* getReduxIdPayload(state, id): the record stored under id, if any *)
getReduxIdPayload(recs, id) ==
  IF \E r \in recs : r.id = id THEN (CHOOSE r \in recs : r.id = id) ELSE NoRec

(* getReduxData(data, resource) *)
getReduxData(data, resource) == [tag |-> "decoded", payload |-> data, isList |-> resource.isList]

Placeholder(tag) == [tag |-> tag]
Recs(id) == [id : {id}, data : {id}, loaded : BOOLEAN, loadError : {Undefined, TransportError}]
Without(recs, id) == { r \in recs : r.id # id }

(*************************** the hook body *********************************)
(* modelsLoaded and k8sModel as each variant derives them *)
ModelsLoadedOf(v, iModel, stored) ==
  IF v = "static" THEN (IF iModel # NoModel THEN TRUE ELSE stored) ELSE stored
K8sModelOf_RegistryFirst(v, iModel, storedModel) ==
  IF v = "static" THEN (IF storedModel # NoModel THEN storedModel ELSE iModel) ELSE storedModel
K8sModelOf(v, iModel, storedModel) ==
  IF v = "static" THEN (IF iModel # NoModel THEN iModel ELSE storedModel) ELSE storedModel

(* const resource = useDeepCompareMemoize(withFallback, true) *)
NormalizedResource_Raw(current, withFallback) == withFallback
NormalizedResource(current, withFallback) == useDeepCompareMemoize(current, withFallback)

(* useSelector(state => watchData ? getReduxIdPayload(state, watchData.id) : null) *)
SelectRecord_AnyRecord(recs, watchData) ==
  IF watchData # NullWatch /\ getReduxIdPayload(recs, watchData.id) # NoRec
    THEN getReduxIdPayload(recs, watchData.id)
  ELSE IF recs # {} THEN CHOOSE r \in recs : TRUE
  ELSE NoRec
SelectRecord(recs, watchData) ==
  IF watchData # NullWatch THEN getReduxIdPayload(recs, watchData.id) ELSE NoRec

(* !resource || resource.kind === NOT_A_VALUE (resource is never null after the fallback) *)
IsSentinel_NullOnly(resource) == FALSE
IsSentinel(resource) == resource.kind = NOT_A_VALUE

(* condition guarding fetchModel + setRetries(retries + 1) *)
ShouldFetch_OffByOne(v, resource, resourceK8s, k8sModel, inFl, batches, r) ==
  /\ v = "retry"
  /\ ~IsSentinel(resource)
  /\ resourceK8s = NoRec
  /\ k8sModel = NoModel /\ ~inFl /\ ~batches /\ r <= RetryBound
ShouldFetch_IgnoresInFlight(v, resource, resourceK8s, k8sModel, inFl, batches, r) ==
  /\ v = "retry"
  /\ ~IsSentinel(resource)
  /\ resourceK8s = NoRec
  /\ k8sModel = NoModel /\ ~batches /\ r < RetryBound
ShouldFetch(v, resource, resourceK8s, k8sModel, inFl, batches, r) ==
  /\ v = "retry"
  /\ ~IsSentinel(resource)
  /\ resourceK8s = NoRec
  /\ k8sModel = NoModel /\ ~inFl /\ ~batches /\ r < RetryBound

(* fetchModel(resource, dispatch): fire and forget; the values RESOURCES.inFlight
   may have when the call returns *)
fetchModel(inFl) == {inFl, TRUE}

(* the data returned while no record exists *)
PlaceholderData(v, resource) ==
  IF resource.isList THEN Placeholder("[]")
  ELSE IF v = "retry" THEN Placeholder("{}") ELSE Placeholder("undefined")

(* the triple returned while no record exists *)
NoRecordResult_NeverFails(v, resource, k8sModel, batches, modelsLoaded) ==
  [data |-> PlaceholderData(v, resource), loaded |-> FALSE, error |-> Undefined]
NoRecordResult_ErrorWhileWaiting(v, resource, k8sModel, batches, modelsLoaded) ==
  IF modelsLoaded /\ k8sModel = NoModel
    THEN [data |-> PlaceholderData(v, resource), loaded |-> ~batches, error |-> NoModelError]
    ELSE [data |-> PlaceholderData(v, resource), loaded |-> FALSE, error |-> Undefined]
NoRecordResult(v, resource, k8sModel, batches, modelsLoaded) ==
  IF modelsLoaded /\ k8sModel = NoModel /\ ~batches
    THEN [data |-> PlaceholderData(v, resource), loaded |-> TRUE, error |-> NoModelError]
    ELSE [data |-> PlaceholderData(v, resource), loaded |-> FALSE, error |-> Undefined]

(* the triple returned from a record *)
RecordResult_LoadedOnceData(resource, resourceK8s) ==
  [data |-> getReduxData(resourceK8s.data, resource),
   loaded |-> TRUE, error |-> resourceK8s.loadError]
RecordResult(resource, resourceK8s) ==
  [data |-> getReduxData(resourceK8s.data, resource),
   loaded |-> resourceK8s.loaded, error |-> resourceK8s.loadError]

(* the triple computed by the final useMemo *)
Reconcile(v, resource, resourceK8s, k8sModel, batches, modelsLoaded) ==
  IF IsSentinel(resource)
    THEN [data |-> Placeholder("undefined"), loaded |-> TRUE, error |-> Undefined]
  ELSE IF resourceK8s = NoRec
    THEN NoRecordResult(v, resource, k8sModel, batches, modelsLoaded)
  ELSE RecordResult(resource, resourceK8s)

(* dependency array of the final useMemo *)
ResultDeps(v, resource, resourceK8s, k8sModel, inFl, batches, r, modelsLoaded) ==
  IF v = "retry"
    THEN [resource |-> resource, resourceK8s |-> resourceK8s, k8sModel |-> k8sModel,
          inFlight |-> inFl, batchesInFlight |-> batches, retries |-> r,
          modelsLoaded |-> modelsLoaded]
    ELSE [resource |-> resource, resourceK8s |-> resourceK8s, k8sModel |-> k8sModel,
          inFlight |-> FALSE, batchesInFlight |-> batches, retries |-> 0,
          modelsLoaded |-> modelsLoaded]

(* the effect's dependency array [dispatch, watchData, workspace] changed *)
EffectDue_WorkspaceOnly(ran, freshWatch, workspace, lastWorkspace) ==
  ~ran \/ workspace # lastWorkspace
EffectDue_NoWorkspace(ran, freshWatch, workspace, lastWorkspace) ==
  ~ran \/ freshWatch
EffectDue(ran, freshWatch, workspace, lastWorkspace) ==
  ~ran \/ freshWatch \/ workspace # lastWorkspace

(* which closure runs first once the effect's dependencies have changed *)
FirstEffectPhase_NoCleanup(ran) == "effect"
FirstEffectPhase(ran) == IF ran THEN "cleanup" ELSE "effect"

(* the watchData the cleanup closure stops: the one its effect ran with *)
CleanupWatch_Latest(captured, latest) == latest
CleanupWatch(captured, latest) == captured

Min(a, b) == IF a < b THEN a ELSE b
IdSet(s) == { s[i] : i \in DOMAIN s }
RemoveFirst(s, x) ==
  LET i == CHOOSE j \in DOMAIN s : s[j] = x /\ \A k \in 1..(j-1) : s[k] # x
  IN SubSeq(s, 1, i-1) \o SubSeq(s, i+1, Len(s))
StaleIds(recs, op) == { r.id : r \in recs } \ IdSet(op)

(* The component has rendered and flushed its effects for everything that
   changed so far. *)
Quiescent == pc = "idle" /\ ~needRender

(* ... and the store has processed the removal of every stopped watch; the
   store does so before the next change reaches the component. *)
Settled == Quiescent /\ StaleIds(records, open) = {}

(*************************** initial state *********************************)
Init ==
  /\ variant \in {"retry", "static"}
  /\ pc = "idle"
  /\ needRender = TRUE
  /\ initResource \in {Null} \cup { Descriptor(sh, TRUE) : sh \in Shapes }
  /\ initModel \in (IF variant = "static" THEN {NoModel, StaticModel} ELSE {NoModel})
  /\ options \in OptionValues
  /\ activeWorkspace \in Workspaces
  /\ registry \in [ModelKeys -> {NoModel}] \cup {[k \in ModelKeys |-> RegistryModel(k)]}
  /\ storedModelsLoaded \in BOOLEAN
  /\ records = {}
  /\ inFlight \in (IF variant = "retry" THEN BOOLEAN ELSE {FALSE})
  /\ batchesInFlight \in BOOLEAN
  /\ retries = 0
  /\ resourceRef = NoRef
  /\ watchMemo = [deps |-> NoDeps, value |-> NullWatch]
  /\ watchFresh = FALSE
  /\ effectState = [ran |-> FALSE, watchData |-> NullWatch, workspace |-> activeWorkspace]
  /\ resultMemo = [deps |-> NoDeps, value |-> NoDeps]
  /\ open = <<>>
  /\ badStop = FALSE
  /\ lastFetch = FALSE
  /\ resetPending = FALSE
  /\ workspaceSeen = activeWorkspace
  /\ everResource = (initResource # Null)
  /\ incs = 0
  /\ newObject = FALSE

(*************************** the component ********************************)
(* One evaluation of the hook body, reading the props, the registry and    *)
(* the store as given.  A call of setRetries during the evaluation makes   *)
(* React evaluate the body again before anything is committed, so the      *)
(* effect is scheduled only by an evaluation that set no state.            *)
HookBody(iResource, iModel, opts, workspace, reg, storedLoaded, recs, inFl, batches, optsNew, modelNew) ==
  LET withFallback == IF iResource = Null THEN Sentinel ELSE iResource
      resource == NormalizedResource(resourceRef, withFallback)
      modelsLoaded == ModelsLoadedOf(variant, iModel, storedLoaded)
      k8sModel == K8sModelOf(variant, iModel, useK8sModel(reg, ModelKey(resource)))
      watchDeps == [k8sModel |-> k8sModel, resource |-> resource, options |-> opts]
      watchRecompute == watchMemo.deps # watchDeps \/ optsNew \/ modelNew
      watchData == IF watchRecompute THEN getWatchData(resource, k8sModel, opts)
                   ELSE watchMemo.value
      resourceK8s == SelectRecord(recs, watchData)
      deps == ResultDeps(variant, resource, resourceK8s, k8sModel, inFl, batches, retries,
                         modelsLoaded)
      recompute == resultMemo.deps # deps \/ modelNew
      fetch == recompute /\ ShouldFetch(variant, resource, resourceK8s, k8sModel, inFl,
                                        batches, retries)
      fresh == (watchFresh \/ watchRecompute)
                 /\ ~(watchData = NullWatch /\ effectState.watchData = NullWatch)
      effectDue == EffectDue(effectState.ran, fresh, workspace, effectState.workspace)
      resourceChanged == /\ variant = "retry"
                         /\ resourceRef # NoRef
                         /\ resourceRef.kind # NOT_A_VALUE
                         /\ resource.kind # NOT_A_VALUE
                         /\ Stringify(resource) # Stringify(resourceRef)
  IN /\ resourceRef' = Held(resource)
     /\ initResource' = IF iResource # Null /\ resource = iResource
                          THEN Held(iResource) ELSE iResource
     /\ watchMemo' = [deps |-> [watchDeps EXCEPT !.resource = Held(resource)],
                      value |-> watchData]
     /\ watchFresh' = fresh
     /\ resultMemo' = IF recompute
                        THEN [deps |-> [deps EXCEPT !.resource = Held(resource)],
                              value |-> Reconcile(variant, resource, resourceK8s, k8sModel,
                                                  batches, modelsLoaded)]
                        ELSE resultMemo
     /\ retries' = IF fetch THEN retries + 1 ELSE retries
     /\ inFlight' \in (IF fetch THEN fetchModel(inFl) ELSE {inFl})
     /\ needRender' = fetch
     /\ pc' = IF ~fetch /\ effectDue THEN FirstEffectPhase(effectState.ran) ELSE "idle"
     /\ lastFetch' = fetch
     /\ resetPending' = (resetPending \/ resourceChanged)
     /\ workspaceSeen' = workspace
     /\ everResource' = (everResource \/ iResource # Null)
     /\ newObject' = (fresh /\ (optsNew \/ modelNew \/ newObject))
     /\ UNCHANGED <<variant, effectState, open, badStop>>

(* React evaluates the body because of a state update of the hook itself   *)
(* (setRetries), or for the first time.                                    *)
Render ==
  /\ pc = "idle" /\ needRender
  /\ HookBody(initResource, initModel, options, activeWorkspace, registry,
              storedModelsLoaded, records, inFlight, batchesInFlight,
              FALSE, FALSE)
  /\ incs' = Min(MaxFetchCount, incs + (IF lastFetch' THEN 1 ELSE 0))
  /\ UNCHANGED <<initModel, options, activeWorkspace, registry, storedModelsLoaded,
                 records, batchesInFlight>>

(* The closure returned by the effect: stopK8sWatch for the captured       *)
(* watchData, then (retrying variant) setRetries(0).  The store processes  *)
(* removals in order: the record of the watch stopped now is dropped at    *)
(* once or kept for a while, records of watches stopped earlier are gone.  *)
CleanupBody ==
  LET wd == CleanupWatch(effectState.watchData, watchMemo.value)
  IN /\ IF wd # NullWatch
          THEN /\ open' = IF wd.id \in IdSet(open) THEN RemoveFirst(open, wd.id) ELSE open
               /\ badStop' = (badStop \/ wd.id \notin IdSet(open))
               /\ \E keep \in BOOLEAN :
                    records' = { r \in records :
                                   \/ r.id \in IdSet(open) /\ r.id # wd.id
                                   \/ r.id = wd.id /\ keep }
          ELSE UNCHANGED <<open, badStop, records>>
     /\ retries' = IF variant = "retry" THEN 0 ELSE retries
     /\ resetPending' = IF variant = "retry" THEN FALSE ELSE resetPending

(* The cleanup runs before the effect body when the dependencies changed. *)
Cleanup ==
  /\ pc = "cleanup"
  /\ CleanupBody
  /\ needRender' = \/ needRender
                   \/ variant = "retry" /\ retries # 0
                   \/ SelectRecord(records', watchMemo.value)
                        # SelectRecord(records, watchMemo.value)
  /\ pc' = "effect"
  /\ UNCHANGED <<variant, initResource, initModel, options, activeWorkspace, registry,
                 storedModelsLoaded, inFlight, batchesInFlight, effectState, resourceRef,
                 watchMemo, watchFresh, resultMemo, lastFetch, workspaceSeen,
                 everResource, incs, newObject>>

(* The consumer goes away: React runs the cleanup of the mounted effect    *)
(* and discards the cells of the hook.                                     *)
Unmount ==
  /\ Settled /\ effectState.ran
  /\ CleanupBody
  /\ needRender' = FALSE
  /\ pc' = "unmounted"
  /\ resourceRef' = NoRef
  /\ watchMemo' = [deps |-> NoDeps, value |-> NullWatch]
  /\ watchFresh' = FALSE
  /\ resultMemo' = [deps |-> NoDeps, value |-> NoDeps]
  /\ lastFetch' = FALSE
  /\ incs' = 0
  /\ newObject' = FALSE
  /\ UNCHANGED <<variant, initResource, initModel, options, activeWorkspace, registry,
                 storedModelsLoaded, inFlight, batchesInFlight, effectState, workspaceSeen,
                 everResource>>

(* The effect body: dispatch(watchData.action) when watchData is not null. *)
Effect ==
  /\ pc = "effect"
  /\ LET wd == watchMemo.value
     IN /\ open' = IF wd # NullWatch THEN Append(open, wd.id) ELSE open
        /\ effectState' = [ran |-> TRUE, watchData |-> wd, workspace |-> activeWorkspace]
  /\ watchFresh' = FALSE
  /\ newObject' = FALSE
  /\ pc' = "idle"
  /\ UNCHANGED <<variant, needRender, initResource, initModel, options, activeWorkspace,
                 registry, storedModelsLoaded, records, inFlight, batchesInFlight, retries,
                 resourceRef, watchMemo, resultMemo, badStop, lastFetch,
                 resetPending, workspaceSeen, everResource, incs>>

(*************************** the environment ******************************)
(* A change of a prop or of a value a selector returns makes React         *)
(* evaluate the hook body with the new value.                              *)

(* The caller renders the component again, passing the objects it passed   *)
(* before or other ones.  An options or initModel object of the same       *)
(* content as before is either the same object or a newly allocated one    *)
(* (an inline literal); React compares dependencies with Object.is.        *)
SetProps ==
  /\ Settled
  /\ \E r \in {Null, initResource} \cup { Descriptor(sh, TRUE) : sh \in Shapes },
        o \in OptionValues,
        m \in (IF variant = "static" THEN {NoModel, StaticModel} ELSE {NoModel}) :
       \E optsNew \in (IF o = options /\ o # Undefined THEN BOOLEAN ELSE {FALSE}),
          modelNew \in (IF m = initModel /\ m # NoModel THEN BOOLEAN ELSE {FALSE}) :
         /\ options' = o
         /\ initModel' = m
         /\ HookBody(r, m, o, activeWorkspace, registry, storedModelsLoaded, records,
                     inFlight, batchesInFlight, optsNew, modelNew)
  /\ incs' = (IF lastFetch' THEN 1 ELSE 0)
  /\ UNCHANGED <<activeWorkspace, registry, storedModelsLoaded, records, batchesInFlight>>

(* The active workspace changes; the hook reads it at its next evaluation. *)
ChangeWorkspace ==
  /\ Settled
  /\ activeWorkspace' \in Workspaces \ {activeWorkspace}
  /\ incs' = 0
  /\ UNCHANGED <<pc, needRender, initResource, initModel, options, registry,
                 storedModelsLoaded, records, inFlight, batchesInFlight, variant, retries,
                 resourceRef, watchMemo, watchFresh, effectState, resultMemo, open,
                 badStop, lastFetch, resetPending, workspaceSeen,
                 everResource, newObject>>

(* The model registry gains or loses a model, or its all-models-loaded     *)
(* flag changes.                                                           *)
RegistryUpdate ==
  /\ Settled
  /\ \/ /\ \E k \in ModelKeys :
             registry' = [registry EXCEPT ![k] = IF @ = NoModel THEN RegistryModel(k) ELSE NoModel]
        /\ UNCHANGED storedModelsLoaded
     \/ /\ storedModelsLoaded' = ~storedModelsLoaded
        /\ UNCHANGED registry
  /\ HookBody(initResource, initModel, options, activeWorkspace, registry',
              storedModelsLoaded', records, inFlight, batchesInFlight,
              FALSE, FALSE)
  /\ incs' = (IF lastFetch' THEN 1 ELSE 0)
  /\ UNCHANGED <<initModel, options, activeWorkspace, records, batchesInFlight>>

(* The in-flight flags of the store change (the static-model hook does not *)
(* select RESOURCES.inFlight).                                             *)
SetInFlight ==
  /\ Settled
  /\ \E i \in (IF variant = "retry" THEN BOOLEAN ELSE {inFlight}), b \in BOOLEAN :
       /\ <<i, b>> # <<inFlight, batchesInFlight>>
       /\ batchesInFlight' = b
       /\ HookBody(initResource, initModel, options, activeWorkspace, registry,
                   storedModelsLoaded, records, i, b, FALSE, FALSE)
  /\ incs' = (IF lastFetch' THEN 1 ELSE 0)
  /\ UNCHANGED <<initModel, options, activeWorkspace, registry, storedModelsLoaded, records>>

(* The transport writes the record of an open watch. *)
Deliver ==
  /\ Settled
  /\ \E id \in IdSet(open) : \E r \in Recs(id) \ records :
       records' = Without(records, id) \cup {r}
  /\ HookBody(initResource, initModel, options, activeWorkspace, registry,
              storedModelsLoaded, records', inFlight, batchesInFlight,
              FALSE, FALSE)
  /\ incs' = (IF lastFetch' THEN 1 ELSE 0)
  /\ UNCHANGED <<initModel, options, activeWorkspace, registry, storedModelsLoaded,
                 batchesInFlight>>

(* The store drops the record of a watch that was stopped earlier. *)
RemoveStale ==
  /\ Quiescent
  /\ \E id \in StaleIds(records, open) : records' = Without(records, id)
  /\ HookBody(initResource, initModel, options, activeWorkspace, registry,
              storedModelsLoaded, records', inFlight, batchesInFlight,
              FALSE, FALSE)
  /\ incs' = (IF lastFetch' THEN 1 ELSE 0)
  /\ UNCHANGED <<initModel, options, activeWorkspace, registry, storedModelsLoaded,
                 batchesInFlight>>

Next ==
  \/ Render
  \/ Cleanup
  \/ Effect
  \/ Unmount
  \/ SetProps
  \/ ChangeWorkspace
  \/ RegistryUpdate
  \/ SetInFlight
  \/ Deliver
  \/ RemoveStale

Spec == Init /\ [][Next]_vars

(*************************** properties ***********************************)
(* The triple the hook returned at its last evaluation and the values that *)
(* evaluation read (the dependency array of the final useMemo).            *)
Rendered == resultMemo.deps # NoDeps
result == resultMemo.value
seen == resultMemo.deps

SentinelTriple == [data |-> Placeholder("undefined"), loaded |-> TRUE, error |-> Undefined]

\* C1: for the sentinel resource the hook returns (undefined, true, undefined),
\* whatever the model, the record, the in-flight flags, the retry counter and
\* allModelsLoaded are.
C1_SentinelTriple ==
  (Rendered /\ seen.resource.kind = NOT_A_VALUE) => result = SentinelTriple

C1_Witness ==
  /\ Rendered /\ seen.resource.kind = NOT_A_VALUE
  /\ variant = "retry" /\ seen.retries = RetryBound
  /\ seen.batchesInFlight /\ seen.modelsLoaded
  /\ result = SentinelTriple

\* C2: whenever the evaluation read a subscription record, the returned loaded
\* and error are the record's loaded and loadError, and the evaluation called
\* no fetchModel.
C2_RecordMirrored ==
  (Rendered /\ seen.resourceK8s # NoRec) =>
     /\ result.loaded = seen.resourceK8s.loaded
     /\ result.error = seen.resourceK8s.loadError
     /\ ~lastFetch

C2_Witness ==
  /\ Rendered /\ seen.resourceK8s # NoRec
  /\ ~seen.resourceK8s.loaded /\ seen.resourceK8s.loadError = TransportError
  /\ seen.modelsLoaded /\ seen.batchesInFlight
  /\ result.loaded = FALSE /\ result.error = TransportError

\* C3: for a non-sentinel resource with no model, allModelsLoaded true and no
\* batch in flight, the hook returns (placeholder, true, NoModelError), the
\* placeholder being the empty list for a list resource and the empty or
\* undefined singular value otherwise, for every inFlight and retry counter.
C3_NoModelError ==
  (/\ Rendered /\ seen.resource.kind # NOT_A_VALUE
   /\ seen.k8sModel = NoModel /\ seen.modelsLoaded /\ ~seen.batchesInFlight)
  => result = [data |-> IF seen.resource.isList THEN Placeholder("[]")
                        ELSE IF variant = "retry" THEN Placeholder("{}")
                        ELSE Placeholder("undefined"),
               loaded |-> TRUE, error |-> NoModelError]

C3_Witness ==
  /\ Rendered /\ seen.resource.kind # NOT_A_VALUE /\ ~seen.resource.isList
  /\ seen.k8sModel = NoModel /\ seen.modelsLoaded /\ ~seen.batchesInFlight
  /\ variant = "retry" /\ seen.inFlight /\ seen.retries = RetryBound
  /\ result.error = NoModelError /\ result.data = Placeholder("{}")

\* C4: when the watch request moves from A to B, stopK8sWatch for A is
\* dispatched before the subscribe action of B: at every step that dispatches
\* a subscribe action, no earlier subscription of the consumer is still open.
C4_UnsubscribeBeforeSubscribe ==
  [][(open' # open /\ Len(open') >= Len(open)) => open = <<>>]_vars

\* A's stop has been dispatched and B's subscribe is the next dispatch.
C4_Witness ==
  /\ pc = "effect" /\ open = <<>>
  /\ effectState.watchData # NullWatch /\ watchMemo.value # NullWatch
  /\ effectState.watchData.id.resource # watchMemo.value.id.resource

\* C5: in every reachable state the consumer has at most one outstanding
\* subscription, it is for the consumer's current watch request id, and every
\* stopK8sWatch carries the id of a subscription that was open.
C5_CurrentInEveryState ==
  /\ Len(open) <= 1
  /\ ~badStop
  /\ open # <<>> => (watchMemo.value # NullWatch /\ open = <<watchMemo.value.id>>)

\* C5 (amended): in every reachable state the consumer has at most one
\* outstanding subscription, it is for the watch request the committed effect
\* captured, and every stopK8sWatch carries the id of a subscription that was
\* open; once the effects of the latest render are flushed it is the one of
\* the current watch request.
C5_OneSubscription ==
  /\ Len(open) <= 1
  /\ ~badStop
  /\ open # <<>> => (/\ effectState.ran /\ effectState.watchData # NullWatch
                     /\ open = <<effectState.watchData.id>>)
  /\ Quiescent => open = (IF watchMemo.value = NullWatch THEN <<>>
                          ELSE <<watchMemo.value.id>>)

\* B is open while the record of the stopped A is still in the store.
C5_Witness ==
  /\ Quiescent /\ Len(open) = 1
  /\ watchMemo.value # NullWatch /\ open[1] = watchMemo.value.id
  /\ StaleIds(records, open) # {}

\* C6: after the consumer unmounts, none of its subscriptions is outstanding.
C6_NoOrphanAfterUnmount == (pc = "unmounted") => open = <<>>

\* The unmount closed the subscription its last effect had opened.
C6_Witness ==
  /\ pc = "unmounted" /\ effectState.watchData # NullWatch /\ open = <<>>

\* C7: the retry counter stays within 0..3.
C7_RetriesBounded == retries \in 0..RetryBound

C7_Witness == variant = "retry" /\ retries = RetryBound /\ Quiescent

\* C8: a change of the resource descriptor from A to a structurally different
\* B resets the retry counter to 0: once the component has settled after the
\* change, setRetries(0) has run since the change was rendered.
C8_ResourceChangeResets == Quiescent => ~resetPending

\* C9: at most 3 fetchModel calls are issued while the resource and the model
\* the hook sees stay the same (counted while no input of the hook changes at
\* all, so that the pairing is the same throughout).
C9_AtMostThreeFetches == incs <= RetryBound

\* C10: every returned triple has loaded = false => error = undefined.
C10_NotLoadedNoError ==
  Rendered => (result.loaded = FALSE => result.error = Undefined)

\* C10 (amended): a triple computed without a subscription record has
\* loaded = false => error = undefined; a triple taken from a record has
\* loaded = false with an error exactly when the record has.
C10_NotLoadedNoErrorWithoutRecord ==
  Rendered =>
    ((result.loaded = FALSE /\ result.error # Undefined)
       <=> (/\ seen.resourceK8s # NoRec
            /\ seen.resourceK8s.loaded = FALSE
            /\ seen.resourceK8s.loadError # Undefined))

C10_Witness ==
  /\ Rendered /\ seen.resource.kind # NOT_A_VALUE /\ seen.resourceK8s = NoRec
  /\ seen.k8sModel = NoModel /\ seen.modelsLoaded /\ seen.batchesInFlight
  /\ result.loaded = FALSE /\ result.error = Undefined

\* C11: NoModelError is terminal and not retried: a reconciliation that
\* returns NoModelError triggers no model fetch.
C11_ErrorNeverFetches ==
  (Rendered /\ result.error = NoModelError) => ~lastFetch

\* C11 (amended): a reconciliation that returns NoModelError triggers a model
\* fetch only when inFlight is false and the retry counter is below 3; once
\* the counter has reached 3 such a reconciliation triggers no fetch.
C11_ErrorFetchesBelowBound ==
  (Rendered /\ result.error = NoModelError)
    => (lastFetch <=> (~seen.inFlight /\ seen.retries < RetryBound /\ variant = "retry"))

\* NoModelError is returned with the counter at 3 and nothing is fetched.
C11_Witness ==
  /\ Rendered /\ result.error = NoModelError
  /\ ~seen.inFlight /\ seen.retries = RetryBound /\ ~lastFetch

\* C12: a change of the active workspace observed by a mounted consumer with
\* a watch request re-runs the effect although resource, model and options
\* are the same: always the committed effect is the one of the workspace the
\* hook last read once the component is quiescent, its cleanup dispatches
\* stopK8sWatch for the current id and leaves the retry counter at 0, and the
\* effect then subscribes the same request again.
C12_WorkspaceResubscribes ==
  [][/\ (Quiescent' /\ effectState'.ran /\ pc' # "unmounted")
        => effectState'.workspace = workspaceSeen'
     /\ (/\ pc = "cleanup" /\ pc' = "effect"
         /\ workspaceSeen # effectState.workspace
         /\ effectState.watchData # NullWatch /\ effectState.watchData = watchMemo.value)
        => (open = <<effectState.watchData.id>> /\ open' = <<>> /\ retries' = 0)
     /\ (/\ pc = "effect" /\ pc' = "idle"
         /\ workspaceSeen # effectState.workspace
         /\ effectState.watchData # NullWatch /\ effectState.watchData = watchMemo.value)
        => (/\ open = <<>> /\ open' = <<effectState.watchData.id>>
            /\ effectState'.watchData = effectState.watchData
            /\ effectState'.workspace = workspaceSeen)]_vars

\* The cleanup of the old workspace's effect has stopped the watch; the same
\* request is about to be subscribed again.
C12_Witness ==
  /\ pc = "effect" /\ workspaceSeen # effectState.workspace
  /\ effectState.watchData # NullWatch /\ effectState.watchData = watchMemo.value
  /\ open = <<>> /\ retries = 0

\* C13: with a static model supplied by the caller the result does not depend
\* on the model registry: the model used is the caller's, allModelsLoaded is
\* taken as true, NoModelError is never returned, and the triple is the
\* function of the descriptor, the record of the watch on the caller's model
\* and nothing else that is written out here (no registry entry or flag in it).
C13_StaticModelIgnoresRegistry ==
  (Rendered /\ variant = "static" /\ initModel # NoModel)
    => /\ seen.k8sModel = initModel
       /\ seen.modelsLoaded = TRUE
       /\ result.error # NoModelError
       /\ watchMemo.value # NullWatch => watchMemo.value.id.model = initModel
       /\ result =
            IF seen.resource.kind = NOT_A_VALUE THEN SentinelTriple
            ELSE IF seen.resourceK8s = NoRec
              THEN [data |-> IF seen.resource.isList THEN Placeholder("[]")
                             ELSE Placeholder("undefined"),
                    loaded |-> FALSE, error |-> Undefined]
            ELSE [data |-> [tag |-> "decoded", payload |-> seen.resourceK8s.data,
                            isList |-> seen.resource.isList],
                  loaded |-> seen.resourceK8s.loaded,
                  error |-> seen.resourceK8s.loadError]

\* The registry lacks the model and reports all models loaded, which without
\* the static model would give NoModelError; the hook is still waiting.
C13_Witness ==
  /\ Rendered /\ variant = "static" /\ initModel # NoModel
  /\ seen.resource.kind # NOT_A_VALUE /\ seen.resourceK8s = NoRec
  /\ registry[ModelKey(seen.resource)] = NoModel /\ storedModelsLoaded
  /\ ~batchesInFlight
  /\ result.loaded = FALSE /\ result.error = Undefined

\* The first evaluations of a retrying consumer, before its first effect has
\* run: a list resource, no model, allModelsLoaded false, nothing in flight,
\* no record, and inFlight still false at the latest evaluation.
FreshMountWaiting ==
  /\ variant = "retry" /\ Rendered /\ ~effectState.ran
  /\ seen.resource.kind # NOT_A_VALUE /\ seen.resource.isList
  /\ seen.k8sModel = NoModel /\ ~seen.modelsLoaded
  /\ ~seen.inFlight /\ ~seen.batchesInFlight /\ seen.resourceK8s = NoRec

\* C14: for a freshly mounted consumer of a list resource with no model,
\* allModelsLoaded false, nothing in flight and no record, the result is
\* ([], false, undefined) and exactly one model fetch is issued while those
\* inputs stay unchanged.
C14_ExactlyOneFetch ==
  FreshMountWaiting
    => /\ result = [data |-> Placeholder("[]"), loaded |-> FALSE, error |-> Undefined]
       /\ incs = 1

\* C14 (amended): in that situation the result is ([], false, undefined) and
\* every reconciliation with the counter below 3 issues one fetch: one after
\* the first evaluation and three in all once the hook has stopped
\* re-evaluating itself.
C14_OneFetchPerReconciliation ==
  FreshMountWaiting
    => /\ result = [data |-> Placeholder("[]"), loaded |-> FALSE, error |-> Undefined]
       /\ incs = Min(seen.retries + 1, RetryBound)
       /\ lastFetch <=> seen.retries < RetryBound
       /\ ~needRender => incs = RetryBound

C14_Witness ==
  /\ FreshMountWaiting /\ ~needRender /\ pc = "effect"
  /\ incs = RetryBound /\ retries = RetryBound /\ ~inFlight

\* C15: while the caller has passed null as the resource ever since the
\* mount, no subscribe action and no stopK8sWatch is dispatched (no effect
\* holds a watch request, none is open) and no model fetch is issued.
C15_NullResourceDispatchesNothing ==
  ~everResource
    => /\ open = <<>> /\ ~badStop
       /\ effectState.watchData = NullWatch /\ watchMemo.value = NullWatch
       /\ ~lastFetch /\ incs = 0 /\ retries = 0

\* A consumer that was given null and a static model all its life is gone.
C15_Witness ==
  /\ ~everResource /\ pc = "unmounted" /\ effectState.ran
  /\ variant = "static" /\ initModel # NoModel /\ open = <<>>

\* C16: a re-render with a descriptor that is deep-equal to the one the hook
\* holds (a freshly allocated object included), with the same model and
\* options objects, the same workspace and store, keeps the normalized descriptor and the watch
\* request: nothing is unsubscribed or subscribed, no effect is scheduled and
\* the retry counter is not reset.
C16_DeepEqualRerenderIsNoop ==
  [][(/\ pc = "idle" /\ ~needRender /\ pc' # "unmounted"
      /\ resourceRef # NoRef /\ initResource' # Null
      /\ Stringify(initResource') = Stringify(resourceRef)
      /\ initModel' = initModel /\ options' = options
      /\ activeWorkspace' = activeWorkspace /\ workspaceSeen = activeWorkspace
      /\ registry' = registry /\ storedModelsLoaded' = storedModelsLoaded
      /\ records' = records /\ batchesInFlight' = batchesInFlight
      /\ ~newObject')
     => (/\ resourceRef' = resourceRef
         /\ watchMemo' = watchMemo /\ ~watchFresh'
         /\ pc' = "idle" /\ open' = open /\ effectState' = effectState
         /\ retries' >= retries)]_vars

\* The caller's latest descriptor is a new object that the hook did not
\* adopt, and the subscription opened for the held one is still the open one.
C16_Witness ==
  /\ Quiescent /\ initResource # Null /\ initResource.fresh
  /\ Stringify(initResource) = Stringify(resourceRef)
  /\ effectState.ran /\ effectState.watchData # NullWatch
  /\ open = <<effectState.watchData.id>> /\ effectState.watchData = watchMemo.value

\* What the latest reconciliation read satisfies every condition of the fetch.
FetchGuard ==
  /\ variant = "retry"
  /\ seen.resource.kind # NOT_A_VALUE /\ seen.resourceK8s = NoRec
  /\ seen.k8sModel = NoModel /\ ~seen.inFlight /\ ~seen.batchesInFlight
  /\ seen.retries < RetryBound

\* C17: a reconciliation triggers a model fetch exactly when the resource is
\* not the sentinel, no record exists, the model is absent, inFlight and
\* batchesInFlight are false and the counter is below 3; it then adds exactly
\* 1 to the counter, and a reconciliation that does not fetch leaves the
\* counter as it read it (only the effect cleanup puts it back to 0).
C17_FetchOnlyUnderGuard ==
  Rendered
    => /\ lastFetch <=> FetchGuard
       /\ lastFetch => (retries = seen.retries + 1 /\ incs >= 1 /\ needRender)
       /\ (~lastFetch /\ variant = "retry") => retries \in {seen.retries, 0}
       /\ variant = "static" => retries = 0

C17_Witness ==
  /\ Rendered /\ lastFetch /\ FetchGuard
  /\ seen.retries = RetryBound - 1 /\ retries = RetryBound

\* C18: within one epoch (the descriptor and the model the hook holds stay
\* the same; here the workspace stays the same too) the retry counter never
\* decreases.
C18_CounterMonotonicInEpoch ==
  [][(/\ resourceRef # NoRef /\ resourceRef' = resourceRef
      /\ watchMemo.deps # NoDeps /\ watchMemo'.deps # NoDeps
      /\ watchMemo'.deps.k8sModel = watchMemo.deps.k8sModel
      /\ workspaceSeen' = workspaceSeen /\ workspaceSeen = effectState.workspace
      /\ activeWorkspace' = activeWorkspace /\ activeWorkspace = workspaceSeen)
     => retries' >= retries]_vars

\* C19: the returned triple is never derived from the record of another watch
\* request than the current one: a decoded triple carries the payload of the
\* record whose id is the current request's id, and with no watch request
\* the hook selects no record and returns a triple made without one.
C19_NoStaleRecord ==
  Rendered
    => /\ seen.resourceK8s # NoRec
            => (/\ watchMemo.value # NullWatch
                /\ seen.resourceK8s.id = watchMemo.value.id)
       /\ result.data.tag = "decoded"
            => (/\ watchMemo.value # NullWatch
                /\ seen.resourceK8s # NoRec
                /\ result.data.payload = watchMemo.value.id)
       /\ watchMemo.value = NullWatch
            => (seen.resourceK8s = NoRec /\ result.data.tag # "decoded")

\* The hook has moved to another request (or to none) while the record of the
\* request its committed effect subscribed is still in the store.
C19_Witness ==
  /\ Rendered /\ pc = "cleanup" /\ effectState.watchData # NullWatch
  /\ watchMemo.value # effectState.watchData
  /\ \E r \in records : r.id = effectState.watchData.id /\ r.loaded
  /\ seen.resourceK8s = NoRec /\ result.data.tag # "decoded"

\* C20: with every external input held fixed the hook stops updating the
\* counter and fetching after at most 3 counter increments: whenever it has
\* come to rest, it has incremented at most 3 times since the inputs were
\* last changed.
C20_AtMostThreeIncrements == Quiescent => incs <= RetryBound

TypeOK ==
  /\ retries \in 0..100
  /\ pc \in {"idle", "cleanup", "effect", "unmounted"}

====
